---- MODULE Spec2Model ----
(***************************************************************************)
(* A model of the Pattern-Check front end (React single page application). *)
(*                                                                         *)
(* Every page component is a state machine: its useState cells are the     *)
(* variables, every event handler is an action, and every `await` splits   *)
(* a handler in the step that sends the request and the steps that run     *)
(* when the response (or the error) arrives.  The REST backend is not part *)
(* of the repository: a response carries any data of the right shape,      *)
(* drawn from small sets, or fails with an HTTP status.                    *)
(*                                                                         *)
(* One behaviour follows one mounted page (the router lives in App, which  *)
(* is outside the sources): Init chooses the page and the signed-in user.  *)
(***************************************************************************)
EXTENDS Integers, Sequences, FiniteSets, Bags, TLC

VARIABLES
    page,           \* the page component this behaviour follows
    role,           \* user?.role of AuthContext (Absent: no user / no role)
    mounted,        \* the page component is mounted
    loading,        \* useState `loading` of the page
    inflight,       \* bag of requests sent and not yet answered
    toast,          \* notification raised by the last step ("none" if none)
    response,       \* HTTP status of the response the last step handled
    \* ---- OrderDetail
    orderId,        \* useParams().orderId
    intervals,      \* active setInterval timers, named by the orderId they captured
    order,          \* useState `order` (NoOrder until fetched)
    patterns,       \* useState `patterns`: stage -> set of occupied slots
    chats,          \* useState `chats`: sequence of messages (each tagged by its order)
    \* ---- Dashboard / Orders
    orders,         \* Dashboard `orders`, Orders `allOrders`
    filteredOrders, \* Orders `filteredOrders`
    statusFilter,   \* Orders `statusFilter`
    dateFilter,     \* Orders `dateFilter` (days)
    dialogOpen,     \* Dashboard / Orders `dialogOpen`
    \* ---- AdminPanel
    users,          \* AdminPanel `users`
    \* ---- NewDashboard
    metrics,        \* NewDashboard `metrics`
    timeFilter,     \* NewDashboard `timeFilter` (days)
    \* ---- Login
    isLogin,        \* Login `isLogin`
    session,        \* what AuthContext.login was last called with (NULL: never)
    \* ---- the browser
    confirmed,      \* answer to the window.confirm of the last step ("none": not asked)
    settled,        \* how the Promise.all of fetchOrderData settled in the last step
    \* ---- the order in which the chat was asked for
    chatQueue,      \* outstanding requests that carry the chat, oldest first
    applied         \* the chat response the last step applied ("none" if none)

detailVars == <<orderId, intervals, order, patterns, chats>>
listVars   == <<orders, filteredOrders, statusFilter, dateFilter, dialogOpen>>
adminVars  == <<users>>
dashVars   == <<metrics, timeFilter>>
loginVars  == <<isLogin, session>>
vars == <<page, role, mounted, loading, inflight, toast, response,
          orderId, intervals, order, patterns, chats,
          orders, filteredOrders, statusFilter, dateFilter, dialogOpen,
          users, metrics, timeFilter, isLogin, session, confirmed, settled,
          chatQueue, applied>>

(***************************************************************************)
(* Bounds of the exploration.                                              *)
(***************************************************************************)
MaxInflight == 2    \* requests the model lets be outstanding at once
MaxChats    == 1    \* messages in a chat thread returned by the backend
MaxPatterns == 1    \* pattern files of an order returned by the backend
NumOrders   == 2    \* orders known to the backend

(***************************************************************************)
(* Values.                                                                 *)
(***************************************************************************)
NULL   == "null"
Absent == "absent"      \* an undefined / null field

Roles     == {"admin", "order_uploader", "pattern_maker", "pattern_checker", "general_user"}
RoleValues == Roles \cup {"other", Absent}

Stages    == {"initial", "second", "approved"}
Statuses  == {"approved", "rejected"}
StatusValues == Statuses \cup {Absent}
Slots     == 1..5
OrderIds  == 1..NumOrders

\* HTTP statuses of a failed call (403 is the one the order lists single out)
FailStatuses == {"403", "500"}

Pages == {"OrderDetail", "Dashboard", "Orders", "AdminPanel", "NewDashboard", "Login"}

(***************************************************************************)
(* Requests.  `stage` and `status` are the fields of the request body the  *)
(* claims speak about; "-" where a request has none.                       *)
(***************************************************************************)
Req(kind, id, stage, status) ==
    [kind |-> kind, id |-> id, stage |-> stage, status |-> status]

Get(kind, id) == Req(kind, id, "-", "-")

\* `response` when the last step handled no response
NoResponse == "none"

\* a request that names no order
Plain(kind) == Get(kind, 0)

Issue(q, r) == q (+) SetToBag({r})

Done(q, r) == q (-) SetToBag({r})

Pending == BagToSet(inflight)

HasCapacity == BagCardinality(inflight) < MaxInflight

CountKind(q, kind) ==
    LET S == {r \in BagToSet(q) : r.kind = kind}
        RECURSIVE Sum(_)
        Sum(T) == IF T = {} THEN 0
                  ELSE LET r == CHOOSE x \in T : TRUE
                       IN  CopiesIn(r, q) + Sum(T \ {r})
    IN  Sum(S)

(***************************************************************************)
(* The order of the requests that carry the chat.  fetchChats and the chat *)
(* GET of fetchOrderData both end in setChats; `chatQueue` keeps them in   *)
(* the order they were sent, and marks one as overtaken once the response  *)
(* of a request sent after it has been applied.                            *)
(***************************************************************************)
ChatCarrying == {"fetchChats", "fetchOrderData"}

\* the requests a step sends: those with more copies in q2 than in q
Added(q, q2) == {r \in BagToSet(q2) : CopiesIn(r, q2) > CopiesIn(r, q)}

\* the requests a step takes the response of
Removed(q, q2) == {r \in BagToSet(q) : CopiesIn(r, q2) < CopiesIn(r, q)}

Entry(r) == [req |-> r, overtaken |-> FALSE]

QueueOf(q) ==
    LET C == {r \in BagToSet(q) : r.kind \in ChatCarrying}
    IN  IF C = {} THEN <<>> ELSE <<Entry(CHOOSE r \in C : TRUE)>>

Enqueue(cq, q, q2) ==
    LET A == {r \in Added(q, q2) : r.kind \in ChatCarrying}
    IN  IF A = {} THEN cq ELSE Append(cq, Entry(CHOOSE r \in A : TRUE))

WithoutAt(cq, k) == SubSeq(cq, 1, k - 1) \o SubSeq(cq, k + 1, Len(cq))

OvertakeBefore(cq, k) ==
    [i \in 1..Len(cq) |-> IF i < k THEN [cq[i] EXCEPT !.overtaken = TRUE] ELSE cq[i]]

\* bookkeeping of a step, from the requests it sent and the response it took
TrackChats ==
    LET R == {r \in Removed(inflight, inflight') : r.kind \in ChatCarrying}
    IN  IF R = {}
        THEN /\ chatQueue' = Enqueue(chatQueue, inflight, inflight')
             /\ applied' = "none"
        ELSE \E k \in 1..Len(chatQueue) :
                /\ chatQueue[k].req \in R
                /\ IF response' = "200"
                   THEN /\ applied' = (IF chatQueue[k].overtaken THEN "overtaken" ELSE "fresh")
                        /\ chatQueue' = Enqueue(WithoutAt(OvertakeBefore(chatQueue, k), k),
                                                inflight, inflight')
                   ELSE /\ applied' = "none"
                        /\ chatQueue' = Enqueue(WithoutAt(chatQueue, k), inflight, inflight')

(***************************************************************************)
(* Data the backend may answer with.                                       *)
(***************************************************************************)
\* OrderDetail reads initial_pattern_status and second_pattern_status in its
\* guards; approved_pattern_status and the three dates only fill badges and
\* are left out of its `order`
OrderData(id) ==
    [id : {id}, initial : StatusValues, second : StatusValues]

PatternData ==
    {S \in SUBSET (Stages \X (1..MaxPatterns)) : Cardinality(S) <= MaxPatterns}

ChatData(id) == {[i \in 1..n |-> id] : n \in 0..MaxChats}

NoPatterns == [st \in Stages |-> {}]

\* the three GETs of fetchOrderData's Promise.all and how each ended
Parts == {"order", "patterns", "chat"}

\* `settled` when the last step settled no Promise.all, when all three GETs
\* were fulfilled, and (the name of a part) when that GET was the first to be
\* rejected
NoParts == "none"

AllFulfilled == "all"

FirstRejected == Parts

\* `order` before the first fetch: null, every `order?.field` is undefined
NoOrder == [id |-> 0, initial |-> Absent, second |-> Absent]

\* `metrics` before the first fetch
NoMetrics == [days |-> 0]


patternsByStage(data) ==
    [st \in Stages |-> {p[2] : p \in {q \in data : q[1] = st}}]

(***************************************************************************)
(* String.prototype.trim on a message given as a tuple of characters.      *)
(***************************************************************************)
Messages == {<<>>, <<" ">>, <<"h", "i">>, <<" ", "x">>}

RECURSIVE trimStart(_)
trimStart(s) ==
    IF s # <<>> /\ Head(s) = " " THEN trimStart(Tail(s)) ELSE s

RECURSIVE trimEnd(_)
trimEnd(s) ==
    IF s # <<>> /\ s[Len(s)] = " " THEN trimEnd(SubSeq(s, 1, Len(s) - 1)) ELSE s

trim(s) == trimEnd(trimStart(s))

(***************************************************************************)
(* OrderDetail: capability flags and what the render offers.               *)
(***************************************************************************)
canUploadInitial == role = "admin" \/ role = "pattern_maker"

\* a variant of canUploadSecondApproved: the pattern maker may upload corrections too
canUploadSecondApprovedMaker ==
    role = "admin" \/ role = "pattern_checker" \/ role = "pattern_maker"

canUploadSecondApproved == role = "admin" \/ role = "pattern_checker"

canApprove == role = "admin" \/ role = "pattern_checker"

canUploadChatImage ==
    role = "admin" \/ role = "pattern_maker" \/ role = "pattern_checker"

isAdmin == role = "admin"

\* order?.<stage>_pattern_status
StatusOf(o, stage) == o[stage]

\* `if (loading) return <Loading/>`: the page body exists only after loading
Rendered == page = "OrderDetail" /\ mounted /\ ~loading

canUpload(stage) ==
    IF stage = "initial" THEN canUploadInitial ELSE canUploadSecondApproved

isInitialRejected(o) == StatusOf(o, "initial") = "rejected"

shouldEnableSecondButtons(stage, o) == stage = "second" /\ isInitialRejected(o)

\* the stage before a stage, and no stage before the first
PreviousStage(stage) ==
    CASE stage = "second"   -> "initial"
      [] stage = "approved" -> "second"
      [] OTHER              -> "none"

\* a variant of UploadOffered: a later stage opens once the previous one is decided
UploadOfferedSequential(stage, slot) ==
    /\ Rendered /\ slot \notin patterns[stage] /\ canUpload(stage)
    /\ stage # "initial" => StatusOf(order, PreviousStage(stage)) # Absent

UploadOffered(stage, slot) ==
    Rendered /\ slot \notin patterns[stage] /\ canUpload(stage)

DownloadOffered(stage, slot) == Rendered /\ slot \in patterns[stage]

DeletePatternOffered(stage, slot) ==
    Rendered /\ slot \in patterns[stage] /\ isAdmin

\* a variant of InitialButtonsRendered: also hidden once the second stage is decided
InitialButtonsRenderedSequential(o) ==
    canApprove /\ StatusOf(o, "initial") = Absent /\ StatusOf(o, "second") = Absent

InitialButtonsRendered(o) == canApprove /\ StatusOf(o, "initial") = Absent

\* a variant of SecondButtonsRendered: the buttons stay after the decision
SecondButtonsRenderedAlways(o) == canApprove

SecondButtonsRendered(o) == canApprove /\ StatusOf(o, "second") = Absent

\* a variant of SecondButtonsDisabled: disabled only once the initial stage is approved
SecondButtonsDisabledIfApproved(o) == StatusOf(o, "initial") = "approved"

SecondButtonsDisabled(o) == StatusOf(o, "initial") # "rejected"

\* a variant of ApprovalOffered: the approved stage has approve/reject buttons too
ApprovalOfferedEveryStage(stage, o) ==
    CASE stage = "initial" -> InitialButtonsRendered(o)
      [] stage = "second"  -> SecondButtonsRendered(o) /\ ~SecondButtonsDisabled(o)
      [] OTHER             -> canApprove

\* the approve/reject buttons of a stage can be clicked
ApprovalOffered(stage, o) ==
    CASE stage = "initial" -> InitialButtonsRendered(o)
      [] stage = "second"  -> SecondButtonsRendered(o) /\ ~SecondButtonsDisabled(o)
      [] OTHER             -> FALSE

DeleteOrderOffered == Rendered /\ isAdmin

(***************************************************************************)
(* OrderDetail: the calls that send requests.                              *)
(***************************************************************************)
fetchOrderData(q, id) == Issue(q, Get("fetchOrderData", id))

\* a variant of fetchChats: no request while a chat fetch is outstanding
fetchChatsDeduplicated(q, id) ==
    IF \E r \in BagToSet(q) : r.kind = "fetchChats"
    THEN q
    ELSE Issue(q, Get("fetchChats", id))

fetchChats(q, id) == Issue(q, Get("fetchChats", id))

(***************************************************************************)
(* OrderDetail: useEffect(..., [orderId]).                                 *)
(***************************************************************************)
\* the interval fires: fetchChats of the closure that created it
PollTick ==
    /\ page = "OrderDetail"
    /\ HasCapacity
    /\ \E id \in intervals : inflight' = fetchChats(inflight, id)
    /\ toast' = "none"
    /\ UNCHANGED <<page, role, mounted, loading, orderId, intervals, order, patterns, chats>>
    /\ UNCHANGED <<listVars, adminVars, dashVars, loginVars>>
    /\ response' = NoResponse
    /\ settled' = NoParts
    /\ TrackChats
    /\ confirmed' = "none"

\* a variant of ChangeOrderId: the effect has no cleanup, the old interval stays
ChangeOrderIdKeepingInterval ==
    /\ page = "OrderDetail" /\ mounted
    /\ HasCapacity
    /\ \E id \in OrderIds \ {orderId} :
          /\ orderId' = id
          /\ intervals' = intervals \cup {id}
          /\ inflight' = fetchOrderData(inflight, id)
    /\ toast' = "none"
    /\ UNCHANGED <<page, role, mounted, loading, order, patterns, chats>>
    /\ UNCHANGED <<listVars, adminVars, dashVars, loginVars>>
    /\ response' = NoResponse
    /\ settled' = NoParts
    /\ TrackChats
    /\ confirmed' = "none"

\* the route parameter changes: cleanup of the old effect, then the new effect
ChangeOrderId ==
    /\ page = "OrderDetail" /\ mounted
    /\ HasCapacity
    /\ \E id \in OrderIds \ {orderId} :
          /\ orderId' = id
          /\ intervals' = (intervals \ {orderId}) \cup {id}
          /\ inflight' = fetchOrderData(inflight, id)
    /\ toast' = "none"
    /\ UNCHANGED <<page, role, mounted, loading, order, patterns, chats>>
    /\ UNCHANGED <<listVars, adminVars, dashVars, loginVars>>
    /\ response' = NoResponse
    /\ settled' = NoParts
    /\ TrackChats
    /\ confirmed' = "none"

\* a variant of Unmount: the effect returns no cleanup
UnmountWithoutCleanup ==
    /\ page = "OrderDetail" /\ mounted
    /\ mounted' = FALSE
    /\ toast' = "none"
    /\ UNCHANGED <<page, role, loading, inflight, orderId, intervals, order, patterns, chats>>
    /\ UNCHANGED <<listVars, adminVars, dashVars, loginVars>>
    /\ response' = NoResponse
    /\ settled' = NoParts
    /\ TrackChats
    /\ confirmed' = "none"

\* the component unmounts (Back button, navigation): cleanup of the effect
Unmount ==
    /\ page = "OrderDetail" /\ mounted
    /\ mounted' = FALSE
    /\ intervals' = intervals \ {orderId}
    /\ toast' = "none"
    /\ UNCHANGED <<page, role, loading, inflight, orderId, order, patterns, chats>>
    /\ UNCHANGED <<listVars, adminVars, dashVars, loginVars>>
    /\ response' = NoResponse
    /\ settled' = NoParts
    /\ TrackChats
    /\ confirmed' = "none"

fetchOrderDataOk(r) ==
    /\ r.kind = "fetchOrderData"
    /\ \E o \in OrderData(r.id), p \in PatternData, c \in ChatData(r.id) :
          /\ order' = o
          /\ chats' = c
          /\ patterns' = patternsByStage(p)
    /\ loading' = FALSE
    /\ inflight' = Done(inflight, r)
    /\ toast' = "none"
    /\ UNCHANGED <<page, role, mounted, orderId, intervals>>
    /\ UNCHANGED <<listVars, adminVars, dashVars, loginVars>>
    /\ response' = "200"
    /\ settled' = AllFulfilled
    /\ TrackChats
    /\ confirmed' = "none"

\* a variant of fetchOrderDataFail: setLoading(false) only on success
fetchOrderDataFailStillLoading(r, status) ==
    /\ r.kind = "fetchOrderData"
    /\ toast' = "error"
    /\ inflight' = Done(inflight, r)
    /\ UNCHANGED <<page, role, mounted, loading, orderId, intervals, order, patterns, chats>>
    /\ UNCHANGED <<listVars, adminVars, dashVars, loginVars>>
    /\ response' = status
    /\ settled' \in FirstRejected
    /\ TrackChats
    /\ confirmed' = "none"

\* a variant of fetchOrderDataFail: Promise.allSettled, the other two GETs are applied
fetchOrderDataFailPartial(r, status) ==
    /\ r.kind = "fetchOrderData"
    /\ settled' \in FirstRejected
    /\ \E o \in OrderData(r.id), p \in PatternData, c \in ChatData(r.id) :
          /\ order' = (IF settled' # "order" THEN o ELSE order)
          /\ chats' = (IF settled' # "chat" THEN c ELSE chats)
          /\ patterns' = (IF settled' # "patterns" THEN patternsByStage(p) ELSE patterns)
    /\ toast' = "error"
    /\ loading' = FALSE
    /\ inflight' = Done(inflight, r)
    /\ UNCHANGED <<page, role, mounted, orderId, intervals>>
    /\ UNCHANGED <<listVars, adminVars, dashVars, loginVars>>
    /\ response' = status
    /\ confirmed' = "none"
    /\ TrackChats

\* Promise.all rejects as soon as one of the three GETs fails
fetchOrderDataFail(r, status) ==
    /\ r.kind = "fetchOrderData"
    /\ toast' = "error"
    /\ loading' = FALSE
    /\ inflight' = Done(inflight, r)
    /\ UNCHANGED <<page, role, mounted, orderId, intervals, order, patterns, chats>>
    /\ UNCHANGED <<listVars, adminVars, dashVars, loginVars>>
    /\ response' = status
    /\ settled' \in FirstRejected
    /\ TrackChats
    /\ confirmed' = "none"

fetchChatsOk(r) ==
    /\ r.kind = "fetchChats"
    /\ \E c \in ChatData(r.id) : chats' = c
    /\ inflight' = Done(inflight, r)
    /\ toast' = "none"
    /\ UNCHANGED <<page, role, mounted, loading, orderId, intervals, order, patterns>>
    /\ UNCHANGED <<listVars, adminVars, dashVars, loginVars>>
    /\ response' = "200"
    /\ settled' = NoParts
    /\ TrackChats
    /\ confirmed' = "none"

\* "Silently fail for polling"
fetchChatsFail(r, status) ==
    /\ r.kind = "fetchChats"
    /\ inflight' = Done(inflight, r)
    /\ toast' = "none"
    /\ UNCHANGED <<page, role, mounted, loading, orderId, intervals, order, patterns, chats>>
    /\ UNCHANGED <<listVars, adminVars, dashVars, loginVars>>
    /\ response' = status
    /\ settled' = NoParts
    /\ TrackChats
    /\ confirmed' = "none"

(***************************************************************************)
(* OrderDetail: event handlers.  The step that runs up to the `await`      *)
(* carries the handler's name; <name>Ok and <name>Fail are its             *)
(* continuations.  Inputs (file chosen, window.confirm answer, text typed) *)
(* are drawn by the step.                                                  *)
(***************************************************************************)
handleFileUpload ==
    /\ \E stage \in Stages, slot \in Slots, file \in BOOLEAN :
          /\ UploadOffered(stage, slot)
          /\ IF ~file
             THEN /\ toast' = "error"            \* 'Please select a file'
                  /\ inflight' = inflight
             ELSE /\ HasCapacity
                  /\ toast' = "none"
                  /\ inflight' = Issue(inflight, Req("upload", orderId, stage, "-"))
    /\ UNCHANGED <<page, role, mounted, loading, detailVars>>
    /\ UNCHANGED <<listVars, adminVars, dashVars, loginVars>>
    /\ response' = NoResponse
    /\ settled' = NoParts
    /\ TrackChats
    /\ confirmed' = "none"

handleFileUploadOk(r) ==
    /\ r.kind = "upload"
    /\ toast' = "success"
    /\ inflight' = fetchOrderData(Done(inflight, r), r.id)
    /\ UNCHANGED <<page, role, mounted, loading, detailVars>>
    /\ UNCHANGED <<listVars, adminVars, dashVars, loginVars>>
    /\ response' = "200"
    /\ settled' = NoParts
    /\ TrackChats
    /\ confirmed' = "none"

handleFileUploadFail(r, status) ==
    /\ r.kind = "upload"
    /\ toast' = "error"
    /\ inflight' = Done(inflight, r)
    /\ UNCHANGED <<page, role, mounted, loading, detailVars>>
    /\ UNCHANGED <<listVars, adminVars, dashVars, loginVars>>
    /\ response' = status
    /\ settled' = NoParts
    /\ TrackChats
    /\ confirmed' = "none"

handleDeletePattern ==
    /\ \E stage \in Stages, slot \in Slots, confirm \in BOOLEAN :
          /\ DeletePatternOffered(stage, slot)
          /\ confirmed' = (IF confirm THEN "yes" ELSE "no")
          /\ IF ~confirm
             THEN inflight' = inflight
             ELSE /\ HasCapacity
                  /\ inflight' = Issue(inflight, Req("deletePattern", orderId, stage, "-"))
    /\ toast' = "none"
    /\ UNCHANGED <<page, role, mounted, loading, detailVars>>
    /\ UNCHANGED <<listVars, adminVars, dashVars, loginVars>>
    /\ response' = NoResponse
    /\ settled' = NoParts
    /\ TrackChats

handleDeletePatternOk(r) ==
    /\ r.kind = "deletePattern"
    /\ toast' = "success"
    /\ inflight' = fetchOrderData(Done(inflight, r), r.id)
    /\ UNCHANGED <<page, role, mounted, loading, detailVars>>
    /\ UNCHANGED <<listVars, adminVars, dashVars, loginVars>>
    /\ response' = "200"
    /\ settled' = NoParts
    /\ TrackChats
    /\ confirmed' = "none"

handleDeletePatternFail(r, status) ==
    /\ r.kind = "deletePattern"
    /\ toast' = "error"
    /\ inflight' = Done(inflight, r)
    /\ UNCHANGED <<page, role, mounted, loading, detailVars>>
    /\ UNCHANGED <<listVars, adminVars, dashVars, loginVars>>
    /\ response' = status
    /\ settled' = NoParts
    /\ TrackChats
    /\ confirmed' = "none"

handleDownload ==
    /\ \E stage \in Stages, slot \in Slots : DownloadOffered(stage, slot)
    /\ HasCapacity
    /\ inflight' = Issue(inflight, Get("download", orderId))
    /\ toast' = "none"
    /\ UNCHANGED <<page, role, mounted, loading, detailVars>>
    /\ UNCHANGED <<listVars, adminVars, dashVars, loginVars>>
    /\ response' = NoResponse
    /\ settled' = NoParts
    /\ TrackChats
    /\ confirmed' = "none"

handleDownloadOk(r) ==
    /\ r.kind = "download"
    /\ toast' = "success"
    /\ inflight' = Done(inflight, r)
    /\ UNCHANGED <<page, role, mounted, loading, detailVars>>
    /\ UNCHANGED <<listVars, adminVars, dashVars, loginVars>>
    /\ response' = "200"
    /\ settled' = NoParts
    /\ TrackChats
    /\ confirmed' = "none"

\* a variant of handleDownloadFail: the catch block is empty
handleDownloadFailSilent(r, status) ==
    /\ r.kind = "download"
    /\ toast' = "none"
    /\ inflight' = Done(inflight, r)
    /\ UNCHANGED <<page, role, mounted, loading, detailVars>>
    /\ UNCHANGED <<listVars, adminVars, dashVars, loginVars>>
    /\ response' = status
    /\ settled' = NoParts
    /\ TrackChats
    /\ confirmed' = "none"

handleDownloadFail(r, status) ==
    /\ r.kind = "download"
    /\ toast' = "error"
    /\ inflight' = Done(inflight, r)
    /\ UNCHANGED <<page, role, mounted, loading, detailVars>>
    /\ UNCHANGED <<listVars, adminVars, dashVars, loginVars>>
    /\ response' = status
    /\ settled' = NoParts
    /\ TrackChats
    /\ confirmed' = "none"

handleApproval ==
    /\ Rendered
    /\ \E stage \in Stages, status \in Statuses, confirm \in BOOLEAN :
          /\ ApprovalOffered(stage, order)
          /\ confirmed' = (IF confirm THEN "yes" ELSE "no")
          /\ IF ~confirm
             THEN inflight' = inflight
             ELSE /\ HasCapacity
                  /\ inflight' = Issue(inflight, Req("approve", orderId, stage, status))
    /\ toast' = "none"
    /\ UNCHANGED <<page, role, mounted, loading, detailVars>>
    /\ UNCHANGED <<listVars, adminVars, dashVars, loginVars>>
    /\ response' = NoResponse
    /\ settled' = NoParts
    /\ TrackChats

handleApprovalOk(r) ==
    /\ r.kind = "approve"
    /\ toast' = "success"
    /\ inflight' = fetchOrderData(Done(inflight, r), r.id)
    /\ UNCHANGED <<page, role, mounted, loading, detailVars>>
    /\ UNCHANGED <<listVars, adminVars, dashVars, loginVars>>
    /\ response' = "200"
    /\ settled' = NoParts
    /\ TrackChats
    /\ confirmed' = "none"

\* a variant of handleApprovalFail: the refetch follows the try block
handleApprovalFailRefetch(r, status) ==
    /\ r.kind = "approve"
    /\ toast' = "error"
    /\ inflight' = fetchOrderData(Done(inflight, r), r.id)
    /\ UNCHANGED <<page, role, mounted, loading, detailVars>>
    /\ UNCHANGED <<listVars, adminVars, dashVars, loginVars>>
    /\ response' = status
    /\ settled' = NoParts
    /\ TrackChats
    /\ confirmed' = "none"

handleApprovalFail(r, status) ==
    /\ r.kind = "approve"
    /\ toast' = "error"
    /\ inflight' = Done(inflight, r)
    /\ UNCHANGED <<page, role, mounted, loading, detailVars>>
    /\ UNCHANGED <<listVars, adminVars, dashVars, loginVars>>
    /\ response' = status
    /\ settled' = NoParts
    /\ TrackChats
    /\ confirmed' = "none"

\* the chat form is rendered for every user; the image input only with
\* canUploadChatImage
handleSendMessage ==
    /\ Rendered
    /\ \E chatMessage \in Messages, chatImage \in BOOLEAN :
          /\ chatImage => canUploadChatImage
          /\ IF trim(chatMessage) = <<>> /\ ~chatImage
             THEN inflight' = inflight
             ELSE /\ HasCapacity
                  /\ inflight' = Issue(inflight, Get("sendMessage", orderId))
    /\ toast' = "none"
    /\ UNCHANGED <<page, role, mounted, loading, detailVars>>
    /\ UNCHANGED <<listVars, adminVars, dashVars, loginVars>>
    /\ response' = NoResponse
    /\ settled' = NoParts
    /\ TrackChats
    /\ confirmed' = "none"

handleSendMessageOk(r) ==
    /\ r.kind = "sendMessage"
    /\ toast' = "none"
    /\ inflight' = fetchChats(Done(inflight, r), r.id)
    /\ UNCHANGED <<page, role, mounted, loading, detailVars>>
    /\ UNCHANGED <<listVars, adminVars, dashVars, loginVars>>
    /\ response' = "200"
    /\ settled' = NoParts
    /\ TrackChats
    /\ confirmed' = "none"

handleSendMessageFail(r, status) ==
    /\ r.kind = "sendMessage"
    /\ toast' = "error"
    /\ inflight' = Done(inflight, r)
    /\ UNCHANGED <<page, role, mounted, loading, detailVars>>
    /\ UNCHANGED <<listVars, adminVars, dashVars, loginVars>>
    /\ response' = status
    /\ settled' = NoParts
    /\ TrackChats
    /\ confirmed' = "none"

\* a variant of handleDeleteOrder: the DELETE is sent whatever the answer
handleDeleteOrderUnconfirmed ==
    /\ DeleteOrderOffered
    /\ \E confirm \in BOOLEAN :
          /\ confirmed' = (IF confirm THEN "yes" ELSE "no")
          /\ HasCapacity
          /\ inflight' = Issue(inflight, Get("deleteOrder", orderId))
    /\ toast' = "none"
    /\ UNCHANGED <<page, role, mounted, loading, detailVars>>
    /\ UNCHANGED <<listVars, adminVars, dashVars, loginVars>>
    /\ response' = NoResponse
    /\ settled' = NoParts
    /\ TrackChats

handleDeleteOrder ==
    /\ DeleteOrderOffered
    /\ \E confirm \in BOOLEAN :
          /\ confirmed' = (IF confirm THEN "yes" ELSE "no")
          /\ IF ~confirm
             THEN inflight' = inflight
             ELSE /\ HasCapacity
                  /\ inflight' = Issue(inflight, Get("deleteOrder", orderId))
    /\ toast' = "none"
    /\ UNCHANGED <<page, role, mounted, loading, detailVars>>
    /\ UNCHANGED <<listVars, adminVars, dashVars, loginVars>>
    /\ response' = NoResponse
    /\ settled' = NoParts
    /\ TrackChats

\* navigate('/') leaves the route of OrderDetail: the component unmounts and
\* the effect's cleanup clears its interval
handleDeleteOrderOk(r) ==
    /\ r.kind = "deleteOrder"
    /\ toast' = "success"
    /\ mounted' = FALSE
    /\ intervals' = intervals \ {orderId}
    /\ inflight' = Done(inflight, r)
    /\ UNCHANGED <<page, role, loading, orderId, order, patterns, chats>>
    /\ UNCHANGED <<listVars, adminVars, dashVars, loginVars>>
    /\ response' = "200"
    /\ settled' = NoParts
    /\ TrackChats
    /\ confirmed' = "none"

handleDeleteOrderFail(r, status) ==
    /\ r.kind = "deleteOrder"
    /\ toast' = "error"
    /\ inflight' = Done(inflight, r)
    /\ UNCHANGED <<page, role, mounted, loading, detailVars>>
    /\ UNCHANGED <<listVars, adminVars, dashVars, loginVars>>
    /\ response' = status
    /\ settled' = NoParts
    /\ TrackChats
    /\ confirmed' = "none"

(***************************************************************************)
(* Dashboard and Orders (the order lists).  Orders keeps the fetched list  *)
(* in `allOrders` and shows `filteredOrders`; Dashboard keeps `orders`.    *)
(* An order of a list is [age, initial, second, approved]: age is the      *)
(* number of days between created_at and now.                              *)
(***************************************************************************)
StatusFilters == {"all", "approved", "rejected", "no_action"}

DateFilters == {1, 3, 7, 30, 90}

SampleOrders ==
    { [age |-> 0,   initial |-> Absent,     second |-> Absent,     approved |-> Absent],
      [age |-> 10,  initial |-> "rejected", second |-> "approved", approved |-> "approved"],
      [age |-> 100, initial |-> "approved", second |-> Absent,     approved |-> "rejected"] }

MaxListed == 1      \* orders in a list returned by the backend

RECURSIVE SeqsUpTo(_, _)
SeqsUpTo(S, n) ==
    IF n = 0 THEN {<<>>}
    ELSE LET shorter == SeqsUpTo(S, n - 1)
         IN  shorter \cup {Append(q, x) : q \in shorter, x \in S}

ListData == SeqsUpTo(SampleOrders, MaxListed)

canCreateOrder == role = "admin" \/ role = "order_uploader"

AdminPanelButtonOffered == role = "admin"

IsListPage == page \in {"Dashboard", "Orders"}

\* a variant of applyFilters: 'rejected' looks at the initial stage only
applyFiltersInitialRejected(list, sf, df) ==
    LET dated == SelectSeq(list, LAMBDA o : o.age <= df)
    IN  CASE sf = "approved"  -> SelectSeq(dated, LAMBDA o : o.approved = "approved")
          [] sf = "rejected"  -> SelectSeq(dated, LAMBDA o : o.initial = "rejected")
          [] sf = "no_action" -> SelectSeq(dated, LAMBDA o :
                                    /\ o.initial = Absent
                                    /\ o.second = Absent
                                    /\ o.approved = Absent)
          [] OTHER            -> dated

\* cutoffDate = now - dateFilter days; kept when created_at >= cutoffDate
applyFilters(list, sf, df) ==
    LET dated == SelectSeq(list, LAMBDA o : o.age <= df)
    IN  CASE sf = "approved"  -> SelectSeq(dated, LAMBDA o : o.approved = "approved")
          [] sf = "rejected"  -> SelectSeq(dated, LAMBDA o :
                                    \/ o.initial = "rejected"
                                    \/ o.second = "rejected"
                                    \/ o.approved = "rejected")
          [] sf = "no_action" -> SelectSeq(dated, LAMBDA o :
                                    /\ o.initial = Absent
                                    /\ o.second = Absent
                                    /\ o.approved = Absent)
          [] OTHER            -> dated

\* useEffect(applyFilters, [allOrders, statusFilter, dateFilter]) of Orders
Refiltered(list, sf, df) ==
    IF page = "Orders" THEN applyFilters(list, sf, df) ELSE filteredOrders

fetchOrders(q) == Issue(q, Plain("fetchOrders"))

fetchOrdersOk(r) ==
    /\ r.kind = "fetchOrders"
    /\ \E data \in ListData :
          /\ orders' = data
          /\ filteredOrders' = Refiltered(data, statusFilter, dateFilter)
    /\ loading' = FALSE
    /\ toast' = "none"
    /\ inflight' = Done(inflight, r)
    /\ UNCHANGED <<page, role, mounted, statusFilter, dateFilter, dialogOpen>>
    /\ UNCHANGED <<detailVars, adminVars, dashVars, loginVars>>
    /\ response' = "200"
    /\ settled' = NoParts
    /\ TrackChats
    /\ confirmed' = "none"

\* 403: "User not approved - silent failure"
fetchOrdersFail(r, status) ==
    /\ r.kind = "fetchOrders"
    /\ IF status = "403"
       THEN /\ orders' = <<>>
            /\ filteredOrders' = Refiltered(<<>>, statusFilter, dateFilter)
            /\ toast' = "none"
       ELSE /\ UNCHANGED <<orders, filteredOrders>>
            /\ toast' = "error"
    /\ loading' = FALSE
    /\ inflight' = Done(inflight, r)
    /\ UNCHANGED <<page, role, mounted, statusFilter, dateFilter, dialogOpen>>
    /\ UNCHANGED <<detailVars, adminVars, dashVars, loginVars>>
    /\ response' = status
    /\ settled' = NoParts
    /\ TrackChats
    /\ confirmed' = "none"

setStatusFilter ==
    /\ page = "Orders"
    /\ \E sf \in StatusFilters \ {statusFilter} :
          /\ statusFilter' = sf
          /\ filteredOrders' = Refiltered(orders, sf, dateFilter)
    /\ toast' = "none"
    /\ UNCHANGED <<page, role, mounted, loading, inflight, orders, dateFilter, dialogOpen>>
    /\ UNCHANGED <<detailVars, adminVars, dashVars, loginVars>>
    /\ response' = NoResponse
    /\ settled' = NoParts
    /\ TrackChats
    /\ confirmed' = "none"

setDateFilter ==
    /\ page = "Orders"
    /\ \E df \in DateFilters \ {dateFilter} :
          /\ dateFilter' = df
          /\ filteredOrders' = Refiltered(orders, statusFilter, df)
    /\ toast' = "none"
    /\ UNCHANGED <<page, role, mounted, loading, inflight, orders, statusFilter, dialogOpen>>
    /\ UNCHANGED <<detailVars, adminVars, dashVars, loginVars>>
    /\ response' = NoResponse
    /\ settled' = NoParts
    /\ TrackChats
    /\ confirmed' = "none"

\* the Create Order dialog exists only with canCreateOrder
setDialogOpen ==
    /\ IsListPage /\ canCreateOrder
    /\ dialogOpen' = ~dialogOpen
    /\ toast' = "none"
    /\ UNCHANGED <<page, role, mounted, loading, inflight>>
    /\ UNCHANGED <<orders, filteredOrders, statusFilter, dateFilter>>
    /\ UNCHANGED <<detailVars, adminVars, dashVars, loginVars>>
    /\ response' = NoResponse
    /\ settled' = NoParts
    /\ TrackChats
    /\ confirmed' = "none"

\* the form is inside the dialog; its inputs are `required`
createOrder ==
    /\ IsListPage /\ canCreateOrder /\ dialogOpen
    /\ HasCapacity
    /\ inflight' = Issue(inflight, Plain("createOrder"))
    /\ toast' = "none"
    /\ UNCHANGED <<page, role, mounted, loading, listVars>>
    /\ UNCHANGED <<detailVars, adminVars, dashVars, loginVars>>
    /\ response' = NoResponse
    /\ settled' = NoParts
    /\ TrackChats
    /\ confirmed' = "none"

createOrderOk(r) ==
    /\ r.kind = "createOrder"
    /\ toast' = "success"
    /\ dialogOpen' = FALSE
    /\ inflight' = fetchOrders(Done(inflight, r))
    /\ UNCHANGED <<page, role, mounted, loading>>
    /\ UNCHANGED <<orders, filteredOrders, statusFilter, dateFilter>>
    /\ UNCHANGED <<detailVars, adminVars, dashVars, loginVars>>
    /\ response' = "200"
    /\ settled' = NoParts
    /\ TrackChats
    /\ confirmed' = "none"

createOrderFail(r, status) ==
    /\ r.kind = "createOrder"
    /\ toast' = "error"
    /\ inflight' = Done(inflight, r)
    /\ UNCHANGED <<page, role, mounted, loading, listVars>>
    /\ UNCHANGED <<detailVars, adminVars, dashVars, loginVars>>
    /\ response' = status
    /\ settled' = NoParts
    /\ TrackChats
    /\ confirmed' = "none"

(***************************************************************************)
(* AdminPanel.                                                             *)
(***************************************************************************)
MaxUsers == 1       \* users in the list returned by the backend

UserData ==
    SeqsUpTo([role : Roles, is_approved : BOOLEAN], MaxUsers)

fetchUsers(q) == Issue(q, Plain("fetchUsers"))

fetchUsersOk(r) ==
    /\ r.kind = "fetchUsers"
    /\ \E data \in UserData : users' = data
    /\ loading' = FALSE
    /\ toast' = "none"
    /\ inflight' = Done(inflight, r)
    /\ UNCHANGED <<page, role, mounted>>
    /\ UNCHANGED <<detailVars, listVars, dashVars, loginVars>>
    /\ response' = "200"
    /\ settled' = NoParts
    /\ TrackChats
    /\ confirmed' = "none"

fetchUsersFail(r, status) ==
    /\ r.kind = "fetchUsers"
    /\ toast' = "error"
    /\ loading' = FALSE
    /\ inflight' = Done(inflight, r)
    /\ UNCHANGED <<page, role, mounted>>
    /\ UNCHANGED <<detailVars, listVars, adminVars, dashVars, loginVars>>
    /\ response' = status
    /\ settled' = NoParts
    /\ TrackChats
    /\ confirmed' = "none"

\* the user cards are rendered once loading is false
updateRole ==
    /\ page = "AdminPanel" /\ ~loading
    /\ HasCapacity
    /\ \E i \in 1..Len(users), newRole \in Roles :
          inflight' = Issue(inflight, Plain("updateRole"))
    /\ toast' = "none"
    /\ UNCHANGED <<page, role, mounted, loading>>
    /\ UNCHANGED <<detailVars, listVars, adminVars, dashVars, loginVars>>
    /\ response' = NoResponse
    /\ settled' = NoParts
    /\ TrackChats
    /\ confirmed' = "none"

\* a variant of updateRoleOk: the list is not fetched again
updateRoleOkNoRefetch(r) ==
    /\ r.kind = "updateRole"
    /\ toast' = "success"
    /\ inflight' = Done(inflight, r)
    /\ UNCHANGED <<page, role, mounted, loading>>
    /\ UNCHANGED <<detailVars, listVars, adminVars, dashVars, loginVars>>
    /\ response' = "200"
    /\ settled' = NoParts
    /\ TrackChats
    /\ confirmed' = "none"

updateRoleOk(r) ==
    /\ r.kind = "updateRole"
    /\ toast' = "success"
    /\ inflight' = fetchUsers(Done(inflight, r))
    /\ UNCHANGED <<page, role, mounted, loading>>
    /\ UNCHANGED <<detailVars, listVars, adminVars, dashVars, loginVars>>
    /\ response' = "200"
    /\ settled' = NoParts
    /\ TrackChats
    /\ confirmed' = "none"

updateRoleFail(r, status) ==
    /\ r.kind = "updateRole"
    /\ toast' = "error"
    /\ inflight' = Done(inflight, r)
    /\ UNCHANGED <<page, role, mounted, loading>>
    /\ UNCHANGED <<detailVars, listVars, adminVars, dashVars, loginVars>>
    /\ response' = status
    /\ settled' = NoParts
    /\ TrackChats
    /\ confirmed' = "none"

approveUser ==
    /\ page = "AdminPanel" /\ ~loading
    /\ HasCapacity
    /\ \E i \in 1..Len(users) :
          /\ ~users[i].is_approved
          /\ inflight' = Issue(inflight, Plain("approveUser"))
    /\ toast' = "none"
    /\ UNCHANGED <<page, role, mounted, loading>>
    /\ UNCHANGED <<detailVars, listVars, adminVars, dashVars, loginVars>>
    /\ response' = NoResponse
    /\ settled' = NoParts
    /\ TrackChats
    /\ confirmed' = "none"

approveUserOk(r) ==
    /\ r.kind = "approveUser"
    /\ toast' = "success"
    /\ inflight' = fetchUsers(Done(inflight, r))
    /\ UNCHANGED <<page, role, mounted, loading>>
    /\ UNCHANGED <<detailVars, listVars, adminVars, dashVars, loginVars>>
    /\ response' = "200"
    /\ settled' = NoParts
    /\ TrackChats
    /\ confirmed' = "none"

approveUserFail(r, status) ==
    /\ r.kind = "approveUser"
    /\ toast' = "error"
    /\ inflight' = Done(inflight, r)
    /\ UNCHANGED <<page, role, mounted, loading>>
    /\ UNCHANGED <<detailVars, listVars, adminVars, dashVars, loginVars>>
    /\ response' = status
    /\ settled' = NoParts
    /\ TrackChats
    /\ confirmed' = "none"

(***************************************************************************)
(* NewDashboard.                                                           *)
(***************************************************************************)
TimeFilters == {1, 3, 7, 30, 90}

\* the metrics of the last `days` days
MetricsData(days) == {[days |-> days]}

\* setLoading(true), then the GET
fetchMetrics(q, days) == Issue(q, Get("fetchMetrics", days))

\* a tab is chosen: setTimeFilter, and the effect on [timeFilter] fetches
setTimeFilter ==
    /\ page = "NewDashboard"
    /\ HasCapacity
    /\ \E days \in TimeFilters \ {timeFilter} :
          /\ timeFilter' = days
          /\ inflight' = fetchMetrics(inflight, days)
    /\ loading' = TRUE
    /\ toast' = "none"
    /\ UNCHANGED <<page, role, mounted, metrics>>
    /\ UNCHANGED <<detailVars, listVars, adminVars, loginVars>>
    /\ response' = NoResponse
    /\ settled' = NoParts
    /\ TrackChats
    /\ confirmed' = "none"

fetchMetricsOk(r) ==
    /\ r.kind = "fetchMetrics"
    /\ \E data \in MetricsData(r.id) : metrics' = data
    /\ loading' = FALSE
    /\ toast' = "none"
    /\ inflight' = Done(inflight, r)
    /\ UNCHANGED <<page, role, mounted, timeFilter>>
    /\ UNCHANGED <<detailVars, listVars, adminVars, loginVars>>
    /\ response' = "200"
    /\ settled' = NoParts
    /\ TrackChats
    /\ confirmed' = "none"

fetchMetricsFail(r, status) ==
    /\ r.kind = "fetchMetrics"
    /\ toast' = "error"
    /\ loading' = FALSE
    /\ inflight' = Done(inflight, r)
    /\ UNCHANGED <<page, role, mounted, dashVars>>
    /\ UNCHANGED <<detailVars, listVars, adminVars, loginVars>>
    /\ response' = status
    /\ settled' = NoParts
    /\ TrackChats
    /\ confirmed' = "none"

(***************************************************************************)
(* Login.                                                                  *)
(***************************************************************************)
\* the submit button is disabled while loading
handleSubmit ==
    /\ page = "Login" /\ ~loading
    /\ HasCapacity
    /\ loading' = TRUE
    /\ inflight' = Issue(inflight,
                         Plain(IF isLogin THEN "login" ELSE "register"))
    /\ toast' = "none"
    /\ UNCHANGED <<page, role, mounted>>
    /\ UNCHANGED <<detailVars, listVars, adminVars, dashVars, loginVars>>
    /\ response' = NoResponse
    /\ settled' = NoParts
    /\ TrackChats
    /\ confirmed' = "none"

handleSubmitOk(r) ==
    /\ r.kind \in {"login", "register"}
    /\ session' = r.kind
    /\ toast' = "success"
    /\ loading' = FALSE
    /\ inflight' = Done(inflight, r)
    /\ UNCHANGED <<page, role, mounted, isLogin>>
    /\ UNCHANGED <<detailVars, listVars, adminVars, dashVars>>
    /\ response' = "200"
    /\ settled' = NoParts
    /\ TrackChats
    /\ confirmed' = "none"

handleSubmitFail(r, status) ==
    /\ r.kind \in {"login", "register"}
    /\ toast' = "error"
    /\ loading' = FALSE
    /\ inflight' = Done(inflight, r)
    /\ UNCHANGED <<page, role, mounted>>
    /\ UNCHANGED <<detailVars, listVars, adminVars, dashVars, loginVars>>
    /\ response' = status
    /\ settled' = NoParts
    /\ TrackChats
    /\ confirmed' = "none"

setIsLogin ==
    /\ page = "Login"
    /\ isLogin' = ~isLogin
    /\ toast' = "none"
    /\ UNCHANGED <<page, role, mounted, loading, inflight, session>>
    /\ UNCHANGED <<detailVars, listVars, adminVars, dashVars>>
    /\ response' = NoResponse
    /\ settled' = NoParts
    /\ TrackChats
    /\ confirmed' = "none"

(***************************************************************************)
(* The state after the page has mounted and its effects have run once.     *)
(***************************************************************************)
MountFetch(pg, id) ==
    CASE pg = "OrderDetail"  -> fetchOrderData(EmptyBag, id)
      [] pg = "Dashboard"    -> fetchOrders(EmptyBag)
      [] pg = "Orders"       -> fetchOrders(EmptyBag)
      [] pg = "AdminPanel"   -> fetchUsers(EmptyBag)
      [] pg = "NewDashboard" -> fetchMetrics(EmptyBag, 30)
      [] OTHER               -> EmptyBag

InitPage(pg, id) ==
    /\ page = pg
    /\ role \in (IF pg = "Login" THEN {Absent} ELSE RoleValues)
    /\ mounted = TRUE
    /\ loading = (pg # "Login")
    /\ inflight = MountFetch(pg, id)
    /\ toast = "none"
    /\ response = NoResponse
    /\ confirmed = "none"
    /\ settled = NoParts
    /\ chatQueue = QueueOf(inflight)
    /\ applied = "none"
    /\ orderId = id
    /\ intervals = (IF pg = "OrderDetail" THEN {id} ELSE {})
    /\ order = NoOrder
    /\ patterns = NoPatterns
    /\ chats = <<>>
    /\ orders = <<>>
    /\ filteredOrders = <<>>
    /\ statusFilter = "all"
    /\ dateFilter = 30
    /\ dialogOpen = FALSE
    /\ users = <<>>
    /\ metrics = NoMetrics
    /\ timeFilter = 30
    /\ isLogin = TRUE
    /\ session = NULL

Init ==
    \E pg \in Pages :
        InitPage(pg, IF pg = "OrderDetail" THEN 1 ELSE 0)

ResponseOk(r) ==
    \/ fetchOrderDataOk(r)
    \/ fetchChatsOk(r)
    \/ handleFileUploadOk(r)
    \/ handleDeletePatternOk(r)
    \/ handleDownloadOk(r)
    \/ handleApprovalOk(r)
    \/ handleSendMessageOk(r)
    \/ handleDeleteOrderOk(r)
    \/ fetchOrdersOk(r)
    \/ createOrderOk(r)
    \/ fetchUsersOk(r)
    \/ updateRoleOk(r)
    \/ approveUserOk(r)
    \/ fetchMetricsOk(r)
    \/ handleSubmitOk(r)

ResponseFail(r, status) ==
    \/ fetchOrderDataFail(r, status)
    \/ fetchChatsFail(r, status)
    \/ handleFileUploadFail(r, status)
    \/ handleDeletePatternFail(r, status)
    \/ handleDownloadFail(r, status)
    \/ handleApprovalFail(r, status)
    \/ handleSendMessageFail(r, status)
    \/ handleDeleteOrderFail(r, status)
    \/ fetchOrdersFail(r, status)
    \/ createOrderFail(r, status)
    \/ fetchUsersFail(r, status)
    \/ updateRoleFail(r, status)
    \/ approveUserFail(r, status)
    \/ fetchMetricsFail(r, status)
    \/ handleSubmitFail(r, status)

UserStep ==
    \/ handleFileUpload
    \/ handleDeletePattern
    \/ handleDownload
    \/ handleApproval
    \/ handleSendMessage
    \/ handleDeleteOrder
    \/ setStatusFilter
    \/ setDateFilter
    \/ setDialogOpen
    \/ createOrder
    \/ updateRole
    \/ approveUser
    \/ setTimeFilter
    \/ handleSubmit
    \/ setIsLogin

Next ==
    \/ UserStep
    \/ PollTick
    \/ Unmount
    \/ \E r \in Pending : fetchOrderDataOk(r)
    \/ \E r \in Pending : fetchChatsOk(r)
    \/ \E r \in Pending : handleFileUploadOk(r)
    \/ \E r \in Pending : handleDeletePatternOk(r)
    \/ \E r \in Pending : handleDownloadOk(r)
    \/ \E r \in Pending : handleApprovalOk(r)
    \/ \E r \in Pending : handleSendMessageOk(r)
    \/ \E r \in Pending : handleDeleteOrderOk(r)
    \/ \E r \in Pending : fetchOrdersOk(r)
    \/ \E r \in Pending : createOrderOk(r)
    \/ \E r \in Pending : fetchUsersOk(r)
    \/ \E r \in Pending : updateRoleOk(r)
    \/ \E r \in Pending : approveUserOk(r)
    \/ \E r \in Pending : fetchMetricsOk(r)
    \/ \E r \in Pending : handleSubmitOk(r)
    \/ \E r \in Pending, status \in FailStatuses : fetchOrderDataFail(r, status)
    \/ \E r \in Pending, status \in FailStatuses : fetchChatsFail(r, status)
    \/ \E r \in Pending, status \in FailStatuses : handleFileUploadFail(r, status)
    \/ \E r \in Pending, status \in FailStatuses : handleDeletePatternFail(r, status)
    \/ \E r \in Pending, status \in FailStatuses : handleDownloadFail(r, status)
    \/ \E r \in Pending, status \in FailStatuses : handleApprovalFail(r, status)
    \/ \E r \in Pending, status \in FailStatuses : handleSendMessageFail(r, status)
    \/ \E r \in Pending, status \in FailStatuses : handleDeleteOrderFail(r, status)
    \/ \E r \in Pending, status \in FailStatuses : fetchOrdersFail(r, status)
    \/ \E r \in Pending, status \in FailStatuses : createOrderFail(r, status)
    \/ \E r \in Pending, status \in FailStatuses : fetchUsersFail(r, status)
    \/ \E r \in Pending, status \in FailStatuses : updateRoleFail(r, status)
    \/ \E r \in Pending, status \in FailStatuses : approveUserFail(r, status)
    \/ \E r \in Pending, status \in FailStatuses : fetchMetricsFail(r, status)
    \/ \E r \in Pending, status \in FailStatuses : handleSubmitFail(r, status)

Spec == Init /\ [][Next]_vars

(***************************************************************************)
(* OrderDetail while the route parameter changes under the mounted         *)
(* component: the effect on [orderId], the poll and the chat.              *)
(***************************************************************************)
\* of the role these steps read canUploadChatImage only: one role with it
\* and one without
NavRoles == {"admin", "general_user"}

InitNav ==
    /\ \E id \in OrderIds : InitPage("OrderDetail", id)
    /\ role \in NavRoles

NextNav ==
    \/ ChangeOrderId
    \/ PollTick
    \/ Unmount
    \/ handleSendMessage
    \/ \E r \in Pending : fetchOrderDataOk(r)
    \/ \E r \in Pending, status \in FailStatuses : fetchOrderDataFail(r, status)
    \/ \E r \in Pending : fetchChatsOk(r)
    \/ \E r \in Pending, status \in FailStatuses : fetchChatsFail(r, status)
    \/ \E r \in Pending : handleSendMessageOk(r)
    \/ \E r \in Pending, status \in FailStatuses : handleSendMessageFail(r, status)

SpecNav == InitNav /\ [][NextNav]_vars

(***************************************************************************)
(* Orders with its list fetched, while the user changes the two filters.   *)
(* The list is any list of up to MaxFiltered orders whose age is on either *)
(* side of a cutoff and whose stage statuses take every combination.       *)
(***************************************************************************)
MaxFiltered == 2    \* orders in the fetched list

AgeValues == {1, 2, 30, 31}

FilterOrders ==
    [age : AgeValues, initial : StatusValues, second : StatusValues,
     approved : StatusValues]

FilterInputs == SeqsUpTo(FilterOrders, MaxFiltered)

InitFilters ==
    /\ page = "Orders"
    /\ role = "general_user"
    /\ mounted = TRUE
    /\ loading = FALSE
    /\ inflight = EmptyBag
    /\ toast = "none"
    /\ response = "200"
    /\ confirmed = "none"
    /\ settled = NoParts
    /\ chatQueue = QueueOf(inflight)
    /\ applied = "none"
    /\ orderId = 0
    /\ intervals = {}
    /\ order = NoOrder
    /\ patterns = NoPatterns
    /\ chats = <<>>
    /\ orders \in FilterInputs
    /\ filteredOrders = applyFilters(orders, "all", 30)
    /\ statusFilter = "all"
    /\ dateFilter = 30
    /\ dialogOpen = FALSE
    /\ users = <<>>
    /\ metrics = NoMetrics
    /\ timeFilter = 30
    /\ isLogin = TRUE
    /\ session = NULL

NextFilters ==
    \/ setStatusFilter
    \/ setDateFilter

SpecFilters == InitFilters /\ [][NextFilters]_vars

(***************************************************************************)
(* Properties.                                                             *)
(***************************************************************************)
AnyOrder == {NoOrder} \cup UNION {OrderData(id) : id \in OrderIds}

\* C1: the second-stage Approve and Reject buttons can be clicked only while
\* order.initial_pattern_status is 'rejected' (not when it is 'approved' or
\* absent), and a step sends an approval request for the second stage only
\* from such a state.
C1_SecondStageGate ==
    /\ [](\A o \in AnyOrder :
            ApprovalOffered("second", o) => o.initial = "rejected")
    /\ [][\A r \in Added(inflight, inflight') :
            (r.kind = "approve" /\ r.stage = "second")
                => order.initial = "rejected"]_vars

C1_Witness ==
    \E r \in Pending : r.kind = "approve" /\ r.stage = "second"

\* C2 as stated: whether the approve/reject buttons of the initial stage and
\* of the second stage are rendered does not depend on the status of any
\* stage (only the enabling of the second-stage buttons does).
C2_NoOtherStatusGate ==
    Rendered =>
        \A o \in AnyOrder :
            /\ InitialButtonsRendered(o) = InitialButtonsRendered(order)
            /\ SecondButtonsRendered(o) = SecondButtonsRendered(order)

\* C2 amended: the approve/reject buttons of the initial stage are offered
\* exactly when the user can approve and the initial stage has no status,
\* whatever the second stage's status; those of the second stage exactly when
\* the user can approve, the second stage has no status and the initial stage
\* is rejected; the approved stage has none.
C2_StageGates ==
    Rendered =>
        \A o \in AnyOrder :
            /\ ApprovalOffered("initial", o)
                  <=> (role \in {"admin", "pattern_checker"} /\ o.initial = Absent)
            /\ ApprovalOffered("second", o)
                  <=> /\ role \in {"admin", "pattern_checker"}
                      /\ o.second = Absent
                      /\ o.initial = "rejected"
            /\ ~ApprovalOffered("approved", o)

\* a decided initial stage hides its buttons from a user who can approve
C2_Witness ==
    /\ Rendered /\ canApprove
    /\ order.initial # Absent
    /\ order.second = Absent
    /\ ~ApprovalOffered("initial", order)

KindsFailingSilently == {"fetchChats"}

\* C3 as stated: every API call that fails ends in an error notification.
C3_EveryFailureToasts ==
    [][response' \in FailStatuses => toast' = "error"]_vars

\* C3 amended: every failing API call is caught; it ends in an error
\* notification, except a failed fetchChats, which is ignored silently, and
\* a fetchOrders refused with HTTP 403, which empties the list silently.
C3_FailureToastsExceptSilent ==
    [][\A r \in Pending :
          (response' \in FailStatuses /\ ResponseFail(r, response')) =>
              IF r.kind \in KindsFailingSilently
              THEN toast' = "none" /\ chats' = chats
              ELSE IF r.kind = "fetchOrders" /\ response' = "403"
              THEN toast' = "none" /\ orders' = <<>>
              ELSE toast' = "error"]_vars

\* on the admin panel only a failed call raises an error notification
C3_Witness == page = "AdminPanel" /\ response \in FailStatuses /\ toast = "error"

C5_PollNeverSkips ==
    (page = "OrderDetail" /\ intervals # {} /\ HasCapacity) =>
        ENABLED (/\ PollTick
                 /\ CountKind(inflight', "fetchChats")
                       = CountKind(inflight, "fetchChats") + 1)

\* as many chat fetches outstanding as the model allows requests, all from the poll
C5_Witness ==
    /\ mounted
    /\ MaxInflight >= 2
    /\ CountKind(inflight, "fetchChats") = MaxInflight

\* C6: an interval exists only for the orderId of the mounted component, so
\* a tick fetches the chat of the current orderId of a mounted component and
\* never that of a previous one; the step that unmounts the component or
\* changes its orderId withdraws no outstanding request; and the response of
\* every outstanding chat fetch, also one sent for a previous orderId or
\* before the unmount, can still arrive and is then written to `chats`.
C6_CleanupClearsOnlyTheInterval ==
    /\ [](intervals = (IF mounted THEN {orderId} ELSE {}))
    /\ [](\A r \in Pending :
            r.kind = "fetchChats" =>
                ENABLED (fetchChatsOk(r) /\ chats' = [i \in 1..1 |-> r.id]))
    /\ [][PollTick =>
            (mounted /\ inflight' = Issue(inflight, Get("fetchChats", orderId)))]_vars
    /\ [][(mounted' # mounted \/ orderId' # orderId) =>
            \A r \in Pending : CopiesIn(r, inflight') >= CopiesIn(r, inflight)]_vars

\* a chat fetch sent for the previous orderId is outstanding after the change
C6_Witness ==
    /\ mounted
    /\ intervals = {orderId}
    /\ \E r \in Pending : r.kind = "fetchChats" /\ r.id # orderId

MutationKinds ==
    {"createOrder", "upload", "deletePattern", "approve", "sendMessage",
     "updateRole", "approveUser"}

\* the fetch that shows the data a mutation changed
RefetchOf(r) ==
    CASE r.kind = "createOrder"                          -> Plain("fetchOrders")
      [] r.kind \in {"upload", "deletePattern", "approve"} -> Get("fetchOrderData", r.id)
      [] r.kind = "sendMessage"                          -> Get("fetchChats", r.id)
      [] r.kind \in {"updateRole", "approveUser"}        -> Plain("fetchUsers")

\* C7: the step that handles the successful response of a mutating request
\* (create order, upload, delete pattern, approve/reject, send message,
\* update role, approve user) sends the refetch of the data it changed; the
\* step that sends a mutating request sends nothing else, so the refetch
\* follows the response.
C7_SubmitThenRefetch ==
    /\ [][\A r \in Pending :
            (response' = "200" /\ r.kind \in MutationKinds /\ ResponseOk(r))
                => inflight' = Issue(Done(inflight, r), RefetchOf(r))]_vars
    /\ [][\A r \in Added(inflight, inflight') :
            r.kind \in MutationKinds
                => /\ response' = NoResponse
                   /\ inflight' = Issue(inflight, r)]_vars

\* the role update succeeded and the user list is being fetched again
C7_Witness ==
    /\ page = "AdminPanel"
    /\ response = "200" /\ toast = "success"
    /\ inflight = SetToBag({Plain("fetchUsers")})

DataPages == {"Dashboard", "Orders", "AdminPanel", "OrderDetail", "NewDashboard"}

\* the fetch a data page starts when it mounts
PageFetch(pg) ==
    CASE pg = "OrderDetail"            -> "fetchOrderData"
      [] pg \in {"Dashboard", "Orders"} -> "fetchOrders"
      [] pg = "AdminPanel"             -> "fetchUsers"
      [] pg = "NewDashboard"           -> "fetchMetrics"

\* C8: a data page is loading only while a fetch of its data is outstanding,
\* and the step that handles the response or the error of such a fetch
\* leaves loading false.
C8_LoadingEndsWithTheFetch ==
    /\ []((page \in DataPages /\ loading) =>
            \E r \in Pending : r.kind = PageFetch(page))
    /\ [][\A r \in Pending :
            (/\ page \in DataPages
             /\ r.kind = PageFetch(page)
             /\ response' # NoResponse
             /\ inflight' = Done(inflight, r))
                => ~loading']_vars

\* the mount fetch of an order page failed: not loading, nothing fetched
C8_Witness ==
    /\ page = "OrderDetail"
    /\ ~loading
    /\ response \in FailStatuses
    /\ order = NoOrder
    /\ CountKind(inflight, "fetchOrderData") = 0

\* every capability the client derives from the role
Capabilities ==
    [uploadInitial        |-> canUploadInitial,
     uploadSecondApproved |-> canUploadSecondApproved,
     approve              |-> canApprove,
     createOrder          |-> canCreateOrder,
     deletePattern        |-> isAdmin,
     deleteOrder          |-> isAdmin,
     adminPanel           |-> AdminPanelButtonOffered]

\* C9: upload to the initial stage is offered only to pattern_maker and admin;
\* upload to the second and approved stages and approve/reject only to
\* pattern_checker and admin; order creation only to order_uploader and
\* admin; pattern deletion, order deletion and the admin panel entry only to
\* admin. Admin holds every capability, a role outside the five known ones
\* holds none, and a request is sent only by a role that holds its capability.
C9_RolePermissions ==
    /\ [](/\ \A slot \in Slots :
               /\ UploadOffered("initial", slot) => role \in {"pattern_maker", "admin"}
               /\ \A stage \in {"second", "approved"} :
                      UploadOffered(stage, slot) => role \in {"pattern_checker", "admin"}
               /\ \A stage \in Stages :
                      DeletePatternOffered(stage, slot) => role = "admin"
          /\ \A stage \in Stages, o \in AnyOrder :
               ApprovalOffered(stage, o) => role \in {"pattern_checker", "admin"}
          /\ canCreateOrder => role \in {"order_uploader", "admin"}
          /\ DeleteOrderOffered => role = "admin"
          /\ AdminPanelButtonOffered => role = "admin"
          /\ role = "admin" => \A c \in DOMAIN Capabilities : Capabilities[c]
          /\ role \notin Roles =>
               /\ \A c \in DOMAIN Capabilities : ~Capabilities[c]
               /\ ~canUploadChatImage)
    /\ [][\A r \in Added(inflight, inflight') :
            /\ (r.kind = "upload" /\ r.stage = "initial")
                   => role \in {"pattern_maker", "admin"}
            /\ (r.kind = "upload" /\ r.stage # "initial")
                   => role \in {"pattern_checker", "admin"}
            /\ r.kind = "approve" => role \in {"pattern_checker", "admin"}
            /\ r.kind = "createOrder" => role \in {"order_uploader", "admin"}
            /\ r.kind \in {"deletePattern", "deleteOrder"} => role = "admin"]_vars

\* a pattern maker is uploading an initial pattern and is offered neither the
\* upload of a second pattern nor the deletion of the order
C9_Witness ==
    /\ role = "pattern_maker"
    /\ Rendered
    /\ \E r \in Pending : r.kind = "upload" /\ r.stage = "initial"
    /\ \A slot \in Slots : ~UploadOffered("second", slot)
    /\ ~DeleteOrderOffered

\* the requests of OrderDetail that change data on the server
MutatingKindsOfOrderDetail ==
    {"upload", "deletePattern", "deleteOrder", "approve", "sendMessage"}

\* C10: while the role is general_user, no request that uploads or deletes a
\* pattern, deletes the order, approves or rejects a stage, or posts a chat
\* message is outstanding.
C10_GeneralUserViewOnly ==
    role = "general_user" =>
        \A r \in Pending : r.kind \notin MutatingKindsOfOrderDetail

\* what the filters keep, one order at a time
KeptByFilters(o, sf, df) ==
    /\ o.age <= df
    /\ sf = "approved" => o.approved = "approved"
    /\ sf = "rejected" => "rejected" \in {o.initial, o.second, o.approved}
    /\ sf = "no_action" => {o.initial, o.second, o.approved} = {Absent}

\* C11: the filtered list of Orders is the fetched list, in its order,
\* restricted to the orders created at most dateFilter days ago that pass the
\* status filter: 'all' every one, 'approved' those whose approved stage is
\* approved, 'rejected' those with a rejected stage, 'no_action' those with
\* no stage status at all.
C11_ApplyFilters ==
    (page = "Orders" /\ ~loading) =>
        filteredOrders =
            SelectSeq(orders, LAMBDA o : KeptByFilters(o, statusFilter, dateFilter))

\* the 'rejected' filter keeps, of two recent orders, only the second one,
\* whose rejection is not at the initial stage
C11_Witness ==
    /\ page = "Orders"
    /\ statusFilter = "rejected"
    /\ dateFilter = 1
    /\ Len(orders) = 2
    /\ Len(filteredOrders) = 1
    /\ filteredOrders[1] = orders[2]
    /\ orders[2].initial # "rejected"
    /\ orders[1].age = 2 /\ orders[1].initial = "rejected"

\* C12 as stated: an upload or an approve/reject of the second or of the
\* approved stage is offered only once the stage before it has a decision.
C12_LaterStagesWait ==
    \A stage \in {"second", "approved"} :
        /\ ApprovalOffered(stage, order) => StatusOf(order, PreviousStage(stage)) # Absent
        /\ \A slot \in Slots :
              UploadOffered(stage, slot) => StatusOf(order, PreviousStage(stage)) # Absent

\* C12 amended: of the actions on a later stage only the approve/reject of
\* the second stage waits for the stage before it (the initial stage must be
\* rejected); an upload to any stage is offered for every empty slot to a
\* user with the upload permission of that stage, whatever the order's
\* statuses, and the approved stage has no approve/reject.
C12_OnlySecondApprovalWaits ==
    /\ \A o \in AnyOrder :
          /\ ApprovalOffered("second", o) => StatusOf(o, "initial") # Absent
          /\ ~ApprovalOffered("approved", o)
    /\ Rendered =>
          \A stage \in Stages, slot \in Slots :
              UploadOffered(stage, slot)
                  <=> /\ slot \notin patterns[stage]
                      /\ role \in (IF stage = "initial"
                                   THEN {"admin", "pattern_maker"}
                                   ELSE {"admin", "pattern_checker"})

\* a pattern of the approved stage is being uploaded while no stage of the
\* order has a decision
C12_Witness ==
    /\ Rendered
    /\ order.id = orderId
    /\ order.initial = Absent /\ order.second = Absent
    /\ \E r \in Pending : r.kind = "upload" /\ r.stage = "approved"
    /\ \E slot \in Slots : UploadOffered("second", slot)

\* C13: every approval request that is outstanding, and every one a step
\* sends, has stage 'initial' or 'second' and status 'approved' or
\* 'rejected'; none is for the 'approved' stage.
C13_ApprovalRequestValues ==
    /\ [](\A r \in Pending :
            r.kind = "approve" =>
                r.stage \in {"initial", "second"} /\ r.status \in {"approved", "rejected"})
    /\ [][\A r \in Added(inflight, inflight') :
            r.kind = "approve" =>
                /\ r.stage \in {"initial", "second"}
                /\ r.status \in {"approved", "rejected"}
                /\ r.id = orderId]_vars

\* the rejection of the initial stage has been sent by a user who can approve
C13_Witness ==
    /\ canApprove
    /\ inflight = SetToBag({Req("approve", orderId, "initial", "rejected")})

\* C14: the approve/reject buttons of the initial stage and of the second
\* stage are rendered only for a user who can approve and only while the
\* order in state has no status for that stage; a step sends an approval
\* request for a stage only from a state whose order has no status for it.
C14_NoApprovalOnceDecided ==
    /\ [](\A o \in AnyOrder :
            /\ InitialButtonsRendered(o) => (canApprove /\ o.initial = Absent)
            /\ SecondButtonsRendered(o) => (canApprove /\ o.second = Absent))
    /\ [][\A r \in Added(inflight, inflight') :
            r.kind = "approve" =>
                (canApprove /\ StatusOf(order, r.stage) = Absent)]_vars

\* both stages of the displayed order are decided and a user who can approve
\* is offered no approval
C14_Witness ==
    /\ Rendered /\ canApprove
    /\ order.initial = "rejected" /\ order.second = "approved"
    /\ \A stage \in Stages : ~ApprovalOffered(stage, order)
    /\ inflight = EmptyBag

\* the approval requests outstanding for a stage of an order
ApprovalsInFlight(id, stage) ==
    CopiesIn(Req("approve", id, stage, "approved"), inflight)
        + CopiesIn(Req("approve", id, stage, "rejected"), inflight)

\* C15: for each stage of an order at most one approval request is
\* outstanding at any time.
C15_OneApprovalPerStage ==
    \A id \in OrderIds, stage \in Stages : ApprovalsInFlight(id, stage) <= 1

ConfirmedKinds == {"approve", "deletePattern", "deleteOrder"}

\* C16: a step in which the user declines a window.confirm sends no request,
\* raises no notification and leaves order, patterns and chats (and the page)
\* as they are; an approval, a pattern deletion and an order deletion are
\* sent only by a step in which the user confirmed. The page is left either
\* by the user or by the step that handles the successful response of the
\* order's DELETE; the step that handles its failure reports the error and
\* stays.
C16_ConfirmBeforeActing ==
    /\ [][confirmed' = "no" =>
            /\ inflight' = inflight
            /\ toast' = "none"
            /\ UNCHANGED <<page, mounted, loading, detailVars>>]_vars
    /\ [][\A r \in Added(inflight, inflight') :
            r.kind \in ConfirmedKinds => confirmed' = "yes"]_vars
    /\ [][(page = "OrderDetail" /\ mounted /\ ~mounted') =>
            \/ response' = NoResponse
            \/ /\ response' = "200"
               /\ \E r \in Pending :
                     r.kind = "deleteOrder" /\ inflight' = Done(inflight, r)]_vars
    /\ [][\A r \in Pending :
            (/\ r.kind = "deleteOrder"
             /\ response' \in FailStatuses
             /\ inflight' = Done(inflight, r))
                => (mounted' = mounted /\ toast' = "error")]_vars

\* an admin has just declined a confirmation on a loaded order page that
\* showed a notification before
C16_Witness ==
    /\ confirmed = "no"
    /\ DeleteOrderOffered
    /\ order.id = orderId
    /\ patterns # NoPatterns
    /\ inflight = EmptyBag

\* C17: the step that settles the three GETs of fetchOrderData writes order,
\* patterns and chats (all three, for the order that was asked) exactly when
\* all three were fulfilled; when at least one was rejected it changes none
\* of them and raises one error notification; either way it leaves loading
\* false, and no other step writes order or patterns.
C17_AllOrNothing ==
    /\ [][settled' = AllFulfilled =>
            /\ order'.id \in OrderIds
            /\ order' \in OrderData(order'.id)
            /\ chats' \in ChatData(order'.id)
            /\ \E p \in PatternData : patterns' = patternsByStage(p)
            /\ toast' = "none"
            /\ ~loading']_vars
    /\ [][settled' \in FirstRejected =>
            /\ UNCHANGED <<order, patterns, chats>>
            /\ toast' = "error"
            /\ response' \in FailStatuses
            /\ ~loading']_vars
    /\ [][(order' # order \/ patterns' # patterns) => settled' = AllFulfilled]_vars

\* an order was loaded and a later fetch of its data was rejected in part:
\* the loaded data is still there
C17_Witness ==
    /\ page = "OrderDetail"
    /\ settled = "chat"
    /\ order.id = orderId
    /\ patterns # NoPatterns
    /\ toast = "error"
    /\ ~loading

\* C18: when a mounted OrderDetail has no request outstanding and the last
\* step applied the data of a fetchOrderData, the order and the chats in
\* state are those of the current orderId; and a step never replaces the
\* order in state by one of another orderId than the current one.
C18_StateFollowsOrderId ==
    /\ []((mounted /\ inflight = EmptyBag /\ settled = AllFulfilled) =>
            /\ order.id = orderId
            /\ \A i \in 1..Len(chats) : chats[i] = orderId)
    /\ [][(mounted /\ order' # order) => order'.id = orderId']_vars

\* C19: no step applies the response of a request for the chat that was
\* sent before a request whose chat response has already been applied.
C19_ChatNeverRegresses == applied # "overtaken"

\* C20: at most one polling interval is active, none when the component is
\* not mounted, and the active one polls the current orderId; the step that
\* creates an interval leaves no other one active.
C20_AtMostOneInterval ==
    /\ [](/\ Cardinality(intervals) <= 1
          /\ ~mounted => intervals = {}
          /\ mounted => intervals \subseteq {orderId})
    /\ [][\A i \in intervals' \ intervals :
            intervals' = {i} /\ i = orderId' /\ mounted']_vars

\* the route has changed after the first order was loaded: one interval,
\* that of the new orderId
C20_Witness ==
    /\ mounted
    /\ order.id \in OrderIds /\ order.id # orderId
    /\ intervals = {orderId}
    /\ inflight = SetToBag({Get("fetchOrderData", orderId)})

====
